---- MODULE Spec2Model ----
(***************************************************************************)
(* A model of gs_search.py: the Google Scholar crawler.                    *)
(*                                                                         *)
(* Python strings that the program scans, slices or searches are modelled  *)
(* as sequences of one-character strings, indexed from 1 (the Python       *)
(* index i is the TLA+ index i + 1).  A Python call that may raise         *)
(* returns a record [exc, val]: exc = "" is a normal return of val.        *)
(***************************************************************************)
EXTENDS Integers, Sequences, FiniteSets, TLC

VARIABLES
    pc,              \* where main() is: loop, fallback, captcha, parse, download, done, aborted
    exc,             \* the uncaught exception that ended main(), "" if none
    nresults,        \* number_of_results
    end_year,        \* end_year
    sortby_column,   \* sortby_column
    enable_download, \* enable_download
    n,               \* the loop variable of line 252: the offset of the page
    fetched,         \* the offsets session.get was called with, in call order
    fb,              \* how get_content_with_selenium ended for the current page
    c,               \* the result blocks of the content c of the current page
    di,              \* the index in c of the next div of the loop of line 278
    links, title, citations, year, author, rank,
    driver,          \* the global `driver`: "unset" until setup_driver returned
    sessions,        \* how many browser sessions webdriver.Chrome has started
    reused,          \* whether the current page's fallback found `driver` set
    cityear,         \* the column data['cit/year']
    order,           \* data_ranked: the ranks in sorted order
    pos,             \* the index in order of the next row of line 350
    retrieved,       \* the ranks whose link urlretrieve was called with
    content,         \* the argument of get_citations
    citOut,          \* what get_citations(content) did
    find,            \* the outcomes of find_element_by_xpath, by attempt
    attempts,        \* the argument attempts of get_element
    elOut            \* what get_element did

crawlVars == <<pc, exc, nresults, end_year, sortby_column, enable_download, n,
               fetched, fb, c, di, links, title, citations, year, author, rank,
               driver, sessions, reused, cityear, order, pos, retrieved>>
citVars == <<content, citOut>>
elemVars == <<find, attempts, elOut>>
vars == <<crawlVars, citVars, elemVars>>

(***************************************************************************)
(* Bounds of the model.                                                    *)
(***************************************************************************)
\* The crawl is followed over at most this many pages.
MaxPages == 2
\* The pages of one crawl hold at most this many result blocks together.
MaxRecords == 2
\* A fragment given to get_citations is at most this many pieces long.
MaxPieces == 8

(***************************************************************************)
(* Python strings.                                                         *)
(***************************************************************************)
Min(a, b) == IF a < b THEN a ELSE b
Max(a, b) == IF a > b THEN a ELSE b

\* A slice index, as Python clamps it for a string of length len.
SliceIndex(i, len) == IF i < 0 THEN Max(len + i, 0) ELSE Min(i, len)

\* s[a:b]
PySlice(s, a, b) ==
    LET lo == SliceIndex(a, Len(s))
        hi == SliceIndex(b, Len(s))
    IN  IF lo >= hi THEN <<>> ELSE SubSeq(s, lo + 1, hi)

\* needle in hay
Contains(hay, needle) ==
    \E i \in 0..(Len(hay) - Len(needle)) : PySlice(hay, i, i + Len(needle)) = needle

Digits == <<"0", "1", "2", "3", "4", "5", "6", "7", "8", "9">>
IsDigit(ch) == \E d \in 1..10 : Digits[d] = ch
DigitVal(ch) == (CHOOSE d \in 1..10 : Digits[d] = ch) - 1

\* str.isdigit(): not empty, and every character a digit.
isdigit(s) == Len(s) > 0 /\ \A i \in 1..Len(s) : IsDigit(s[i])

RECURSIVE DecimalValue(_)
DecimalValue(s) ==
    IF s = <<>> THEN 0
    ELSE 10 * DecimalValue(SubSeq(s, 1, Len(s) - 1)) + DigitVal(s[Len(s)])

RECURSIVE Strip(_)
Strip(s) ==
    IF s # <<>> /\ s[1] = " " THEN Strip(Tail(s))
    ELSE IF s # <<>> /\ s[Len(s)] = " " THEN Strip(SubSeq(s, 1, Len(s) - 1))
    ELSE s

Return(v) == [exc |-> "", val |-> v]
Raise(e) == [exc |-> e, val |-> 0]

\* int(s) of a string: surrounding blanks and one sign are accepted, then
\* decimal digits only (the digit separator "_" is not in the alphabet of
\* the model).
PyInt(s) ==
    LET t == Strip(s)
        signed == t # <<>> /\ t[1] \in {"+", "-"}
        d == IF signed THEN Tail(t) ELSE t
    IN  IF ~isdigit(d) THEN Raise("ValueError")
        ELSE IF signed /\ t[1] = "-" THEN Return(0 - DecimalValue(d))
        ELSE Return(DecimalValue(d))

RECURSIVE str(_)
\* str(k) of an integer k >= 0
str(k) == IF k < 10 THEN <<Digits[k + 1]>> ELSE str(k \div 10) \o <<Digits[(k % 10) + 1]>>

(***************************************************************************)
(* get_citations, lines 139-148.                                           *)
(***************************************************************************)
\* 'Cited by '
CitedBy == <<"C", "i", "t", "e", "d", " ", "b", "y", " ">>
CitedByLen == 9
\* range(init + 1, init + 6) ends before init + 6.
CitedEndSpan == 6

RECURSIVE CitedEnd(_, _, _)
\* The loop of lines 144-146 from `end` on: the value of `end` after it, or -1
\* when content[end] raises IndexError.
CitedEnd(s, init, end) ==
    IF end >= Len(s) THEN -1
    ELSE IF s[end + 1] = "<" THEN end
    ELSE IF end + 1 < init + CitedEndSpan THEN CitedEnd(s, init, end + 1)
    ELSE end

RECURSIVE CitedScan(_, _, _, _)
\* The loop of line 141 from `char` on; `found` tells whether `out` is still
\* the integer 0 of line 140 or a slice of the content.
CitedScan(s, char, found, out) ==
    IF char >= Len(s) THEN (IF found THEN PyInt(out) ELSE Return(0))
    ELSE IF PySlice(s, char, char + CitedByLen) = CitedBy
         THEN LET init == char + CitedByLen
                  end == CitedEnd(s, init, init + 1)
              IN  IF end = -1 THEN Raise("IndexError")
                  ELSE CitedScan(s, char + 1, TRUE, PySlice(s, init, end))
         ELSE CitedScan(s, char + 1, found, out)

\* get_citations stopping at the first marker instead of the last.
get_citations_first(s) ==
    LET ms == {i \in 0..(Len(s) - CitedByLen) : PySlice(s, i, i + CitedByLen) = CitedBy}
    IN  IF ms = {} THEN Return(0)
        ELSE CitedScan(PySlice(s, 0, Min(Len(s), (CHOOSE i \in ms : \A j \in ms : i <= j)
                                                    + CitedByLen + CitedEndSpan)),
                       0, FALSE, <<>>)

get_citations(s) == CitedScan(s, 0, FALSE, <<>>)

(***************************************************************************)
(* get_year, lines 151-157, and get_author, lines 176-181.                 *)
(***************************************************************************)
Dashes(s) == {i \in 0..(Len(s) - 1) : s[i + 1] = "-"}
FirstOf(S) == CHOOSE i \in S : \A j \in S : i <= j
LastOf(S) == CHOOSE i \in S : \A j \in S : j <= i

get_year(s) ==
    IF Dashes(s) = {} THEN Raise("UnboundLocalError")
    ELSE LET char == LastOf(Dashes(s))
             out == PySlice(s, char - 5, char - 1)
         IN  IF ~isdigit(out) THEN Return(0) ELSE PyInt(out)

get_author(s) ==
    IF Dashes(s) = {} THEN Raise("UnboundLocalError")
    ELSE LET char == FirstOf(Dashes(s))
         IN  [exc |-> "", val |-> PySlice(s, 2, char - 1)]

(***************************************************************************)
(* get_element, lines 184-194.                                             *)
(***************************************************************************)
\* attempts=5
Attempts == 5

RECURSIVE get_element(_, _, _)
\* f[i] tells whether the i-th call (from 0) of find_element_by_xpath finds
\* the element.  el is what the call returns; calls counts the lookups made.
\* The recursive call of line 192 is a statement: its value is dropped and
\* the function falls off its end, returning None.
get_element(f, att, count) ==
    IF f[count] THEN [el |-> "element", calls |-> 1]
    ELSE IF count < att
         THEN [el |-> "None", calls |-> 1 + get_element(f, att, count + 1).calls]
         ELSE [el |-> "None", calls |-> 1]

(***************************************************************************)
(* isValidUrl, lines 368-372.                                              *)
(***************************************************************************)
\* 'Look manually at'
LookManuallyAt == <<"L", "o", "o", "k", " ", "m", "a", "n", "u", "a", "l", "l", "y", " ", "a", "t">>
\* The value None of Python, where a string is expected.
None == <<"None">>

\* isValidUrl letting every string through.
isValidUrl_any(url) == IF url = None THEN Raise("TypeError") ELSE Return(TRUE)

isValidUrl(url) ==
    IF url = None THEN Raise("TypeError")
    ELSE IF Contains(url, LookManuallyAt) THEN Return(FALSE)
    ELSE Return(TRUE)


(***************************************************************************)
(* get_citations and get_element as functions of their input.              *)
(***************************************************************************)
SeqsUpTo(S, k) == UNION {[1..m -> S] : m \in 0..k}

RECURSIVE Flatten(_)
Flatten(ps) == IF ps = <<>> THEN <<>> ELSE Head(ps) \o Flatten(Tail(ps))

\* What a fragment is made of: the marker, digits and the delimiter.
Pieces == {CitedBy, <<"4">>, <<"2">>, <<"<">>}
Fragments == {Flatten(ps) : ps \in SeqsUpTo(Pieces, MaxPieces)}

NotCalled == [exc |-> "not called", val |-> 0]
NoLookup == [el |-> "not called", calls |-> 0]

CrawlIdle ==
    /\ pc = "idle" /\ exc = "" /\ nresults = 0 /\ end_year = 0
    /\ sortby_column = "" /\ enable_download = FALSE /\ n = 0
    /\ fetched = <<>> /\ fb = "none" /\ c = <<>> /\ di = 1
    /\ links = <<>> /\ title = <<>> /\ citations = <<>> /\ year = <<>>
    /\ author = <<>> /\ rank = <<0>>
    /\ driver = "unset" /\ sessions = 0 /\ reused = FALSE
    /\ cityear = <<>> /\ order = <<>> /\ pos = 1 /\ retrieved = {}
CitIdle == content = <<>> /\ citOut = NotCalled
ElemIdle == find = <<>> /\ attempts = 0 /\ elOut = NoLookup

InitCit == CrawlIdle /\ ElemIdle /\ content \in Fragments /\ citOut = NotCalled

CallGetCitations ==
    /\ citOut = NotCalled
    /\ citOut' = get_citations(content)
    /\ UNCHANGED <<content, crawlVars, elemVars>>

NextCit == CallGetCitations
SpecCit == InitCit /\ [][NextCit]_vars

InitElem ==
    /\ CrawlIdle /\ CitIdle
    /\ attempts \in 0..Attempts
    /\ find \in [0..Attempts -> BOOLEAN]
    /\ elOut = NoLookup

CallGetElement ==
    /\ elOut = NoLookup
    /\ elOut' = get_element(find, attempts, 0)
    /\ UNCHANGED <<find, attempts, crawlVars, citVars>>

NextElem == CallGetElement
SpecElem == InitElem /\ [][NextElem]_vars

(***************************************************************************)
(* The pages Google Scholar answers with.  A result block (a div of class  *)
(* gs_r) is what the five extractions of lines 279-304 read of it:         *)
(*   h3a   "ok": div.find('h3').find('a') is an anchor with an href,       *)
(*         "nohref": an anchor without href, "none": no such anchor;       *)
(*   href, text   the anchor's href and text;                              *)
(*   fmt   str(div.format_string), which holds the markup of the block;    *)
(*   gs_a  the text of the byline div of class gs_a, None without one.     *)
(***************************************************************************)
HrefA == <<"h", "t", "t", "p", ":", "/", "/", "a">>
HrefB == <<"h", "t", "t", "p", ":", "/", "/", "b">>
Fmt4 == <<"<", "a", ">">> \o CitedBy \o <<"4", "<", "/", "a", ">", ">">>
Fmt42 == <<"<", "a", ">">> \o CitedBy \o <<"4", "2", "<", "/", "a", ">", ">">>
FmtMany == <<"<", "p", ">">> \o CitedBy \o <<"m", "a", "n", "y", "<", "/", "p", ">", ">">>
FmtPlain == <<"<", "p", ">", "<", "/", "p", ">", ">">>
Byline2019 == <<"J", " ", "S", "m", " ", "-", " ", "X", ",", " ", "2", "0", "1", "9", " ", "-", " ", "p">>
Byline2021 == <<"K", " ", "L", "i", " ", "-", " ", "Y", ",", " ", "2", "0", "2", "1", " ", "-", " ", "q">>
BylinePlain == <<"n", "o", " ", "y", "e", "a", "r">>

Block(a, h, t, f, g) == [h3a |-> a, href |-> h, text |-> t, fmt |-> f, gs_a |-> g]
Blocks ==
    { Block("ok", HrefA, "T1", Fmt4, Byline2019),
      Block("ok", HrefB, "T2", FmtMany, Byline2021),
      Block("nohref", None, "T3", Fmt42, None),
      Block("none", None, "", Fmt42, Byline2021),
      Block("none", None, "", FmtPlain, None),
      Block("none", None, "", FmtMany, BylinePlain) }

(***************************************************************************)
(* main, lines 215-366.                                                    *)
(***************************************************************************)
\* range(0, number_of_results, 10)
PageStep == 10

\* --nresults: get_command_line_args leaves nresults unbound for 0.
NResults == {-1, 1, PageStep * MaxPages}
\* --endyear
EndYears == {2019, 2020}
\* --sortby
SortBys == {"cit/year", "no such column"}

\* url, line 254: the template is cut down to the one parameter that differs
\* from page to page.
Url(k) == <<"s", "t", "a", "r", "t", "=">> \o str(k)

\* 'Look manually at: '
LookManually == LookManuallyAt \o <<":", " ">>
\* 'Author not found'
AuthorNotFound == <<"A", "u", "t", "h", "o", "r", " ", "n", "o", "t", " ", "f", "o", "u", "n", "d">>

\* Lines 279-282.
AppendLink(l, div, url) ==
    IF div.h3a = "none" THEN Append(l, LookManually \o url)
    ELSE Append(l, div.href)

\* Lines 284-287.
AppendTitle(l, div) ==
    IF div.h3a = "none" THEN Append(l, "Could not catch title")
    ELSE Append(l, div.text)

\* Lines 289-293 with an except that appends nothing.
AppendCitations_skip(l, div) ==
    LET r == get_citations(div.fmt)
    IN  IF r.exc # "" THEN l ELSE Append(l, r.val)

\* Lines 289-293.
AppendCitations(l, div) ==
    LET r == get_citations(div.fmt)
    IN  IF r.exc # "" THEN Append(l, 0) ELSE Append(l, r.val)

\* Lines 295-299: .text of None raises AttributeError.
AppendYear(l, div) ==
    LET r == IF div.gs_a = None THEN Raise("AttributeError") ELSE get_year(div.gs_a)
    IN  IF r.exc # "" THEN Append(l, 0) ELSE Append(l, r.val)

\* Lines 301-304.
AppendAuthor(l, div) ==
    LET r == IF div.gs_a = None THEN Raise("AttributeError") ELSE get_author(div.gs_a)
    IN  IF r.exc # "" THEN Append(l, AuthorNotFound) ELSE Append(l, r.val)

\* Line 306 without the + 1.
NextRank_same(r) == r[Len(r)]

\* Line 306: rank[-1] + 1
NextRank(r) == r[Len(r)] + 1

\* Line 198 without the test: a session is set up at every call.
NeedsSetup_always(d) == TRUE

\* Line 198: 'driver' not in globals()
NeedsSetup(d) == d = "unset"

\* The lookups get_element can be answered with: what matters is the first
\* attempt that finds the element, the attempts after it are not made.
FindOutcomes == {[i \in 0..Attempts |-> i >= k] : k \in 0..(Attempts + 1)}

\* How many more result blocks the model follows.
Room == MaxRecords - (Len(rank) - 1)

Init ==
    /\ pc = "loop" /\ exc = ""
    /\ nresults \in NResults
    /\ end_year \in EndYears
    /\ sortby_column \in SortBys
    /\ enable_download \in BOOLEAN
    /\ n = 0 /\ fetched = <<>> /\ fb = "none" /\ c = <<>> /\ di = 1
    /\ links = <<>> /\ title = <<>> /\ citations = <<>> /\ year = <<>>
    /\ author = <<>> /\ rank = <<0>>
    /\ driver = "unset" /\ sessions = 0 /\ reused = FALSE
    /\ cityear = <<>> /\ order = <<>> /\ pos = 1 /\ retrieved = {}
    /\ CitIdle /\ ElemIdle

args == <<nresults, end_year, sortby_column, enable_download>>
records == <<links, title, citations, year, author, rank>>
table == <<cityear, order, pos, retrieved>>

\* Lines 252-264: session.get of the page at offset n, and c = page.content.
\* Nothing catches what session.get raises.  A body that holds a robot-check
\* phrase goes to selenium.
FetchPage ==
    /\ pc = "loop" /\ n < nresults
    /\ fetched' = Append(fetched, n)
    /\ \/ /\ pc' = "aborted" /\ exc' = "ConnectionError"
          /\ UNCHANGED <<c, di>>
       \/ \E robot \in BOOLEAN, bs \in SeqsUpTo(Blocks, Room) :
            /\ c' = bs /\ di' = 1
            /\ pc' = IF robot THEN "fallback" ELSE "parse"
            /\ UNCHANGED exc
    /\ UNCHANGED <<args, n, fb, records, driver, sessions, reused, table, citVars, elemVars>>

\* Lines 268-270 without the except: the exception ends main.
Caught_not(how) == pc' = "aborted" /\ c' = c /\ fb' = how

\* Lines 268-273: the except of main leaves c = page.content.
Caught(how) == pc' = "parse" /\ c' = c /\ fb' = how

\* What get_element(driver, "/html/body") returning None leads to: line 205
\* or 210 raises AttributeError.
LookupFails ==
    \E f \in FindOutcomes :
        LET look == get_element(f, Attempts, 0)
        IN  /\ look.el = "None"
            /\ Caught(IF look.calls = Attempts + 1 THEN "lookup exhausted" ELSE "lookup lost")

LookupFinds == \E f \in FindOutcomes : get_element(f, Attempts, 0).el = "element"

\* Lines 266-267 and 197-212, up to raw_input or the return.
Fallback ==
    /\ pc = "fallback"
    /\ reused' = ~NeedsSetup(driver)
    /\ \/ /\ NeedsSetup(driver)
          /\ Caught("setup failed")
          /\ UNCHANGED <<driver, sessions>>
       \/ /\ driver' = "chrome"
          /\ sessions' = IF NeedsSetup(driver) THEN sessions + 1 ELSE sessions
          /\ \/ Caught("get failed")
             \/ LookupFails
             \/ /\ LookupFinds
                /\ \/ pc' = "captcha" /\ fb' = "waiting" /\ UNCHANGED c
                   \/ \E bs \in SeqsUpTo(Blocks, Room) :
                        pc' = "parse" /\ c' = bs /\ fb' = "ok"
    /\ UNCHANGED <<exc, args, n, fetched, di, records, table, citVars, elemVars>>

\* Lines 208-212: raw_input returns (or raises EOFError), the body is read again.
Captcha ==
    /\ pc = "captcha"
    /\ \/ Caught("no input")
       \/ LookupFails
       \/ /\ LookupFinds
          /\ \E bs \in SeqsUpTo(Blocks, Room) : pc' = "parse" /\ c' = bs /\ fb' = "ok"
    /\ UNCHANGED <<exc, args, n, fetched, di, records, driver, sessions, reused, table,
                   citVars, elemVars>>

\* Lines 278-306: one pass of the loop over mydivs.
ParseBlock ==
    /\ pc = "parse" /\ di <= Len(c)
    /\ links' = AppendLink(links, c[di], Url(n))
    /\ title' = AppendTitle(title, c[di])
    /\ citations' = AppendCitations(citations, c[di])
    /\ year' = AppendYear(year, c[di])
    /\ author' = AppendAuthor(author, c[di])
    /\ rank' = Append(rank, NextRank(rank))
    /\ di' = di + 1
    /\ UNCHANGED <<pc, exc, args, n, fetched, fb, c, driver, sessions, reused, table,
                   citVars, elemVars>>

\* Lines 308-309 and the next value of n.
EndPage ==
    /\ pc = "parse" /\ di > Len(c)
    /\ n' = n + PageStep
    /\ pc' = "loop" /\ fb' = "none" /\ reused' = FALSE /\ c' = <<>> /\ di' = 1
    /\ UNCHANGED <<exc, args, fetched, records, driver, sessions, table, citVars, elemVars>>

Abs(x) == IF x < 0 THEN 0 - x ELSE x

\* Line 318 on one value: round(0) of a / b, halves to the even neighbour.
RoundDiv(a, b) ==
    LET q == Abs(a) \div Abs(b)
        r == Abs(a) % Abs(b)
        m == IF 2 * r > Abs(b) \/ (2 * r = Abs(b) /\ q % 2 = 1) THEN q + 1 ELSE q
    IN  IF (a < 0) # (b < 0) THEN 0 - m ELSE m

\* Line 317: the denominator of a row.
Denominator(i) == end_year + 1 - year[i]

\* Lines 321-326: the column the table is sorted by.
SortKey(i) == IF sortby_column = "cit/year" THEN cityear'[i] ELSE citations[i]

\* sort_values(ascending=False): the rows in an order of falling keys; the
\* order of rows with equal keys is the sort algorithm's.
SortedOrders(N) ==
    {o \in [1..N -> 1..N] :
        /\ \A i, j \in 1..N : i # j => o[i] # o[j]
        /\ \A i \in 1..(N - 1) : SortKey(o[i]) >= SortKey(o[i + 1])}

\* Lines 312-329 and 344-348: the table, its cit/year column (astype(int)
\* raises for a quotient that is not finite), the sort and the print.
BuildTable ==
    /\ pc = "loop" /\ ~(n < nresults)
    /\ \/ /\ \E i \in 1..Len(year) : Denominator(i) = 0
          /\ pc' = "aborted" /\ exc' = "IntCastingNaNError"
          /\ UNCHANGED <<cityear, order>>
       \/ /\ \A i \in 1..Len(year) : Denominator(i) # 0
          /\ cityear' = [i \in 1..Len(year) |-> RoundDiv(citations[i], Denominator(i))]
          /\ order' \in SortedOrders(Len(year))
          /\ pc' = IF enable_download /\ Len(year) > 0 THEN "download" ELSE "done"
          /\ UNCHANGED exc
    /\ UNCHANGED <<args, n, fetched, fb, c, di, records, driver, sessions, reused, pos,
                   retrieved, citVars, elemVars>>

\* Lines 350-366: one row of data_ranked.  What download_pdf raises is caught.
DownloadRow ==
    /\ pc = "download" /\ pos <= Len(order)
    /\ LET v == isValidUrl(links[order[pos]])
       IN  \/ /\ v.exc # ""
              /\ pc' = "aborted" /\ exc' = v.exc
              /\ UNCHANGED <<pos, retrieved>>
           \/ /\ v.exc = ""
              /\ retrieved' = IF v.val THEN retrieved \cup {order[pos]} ELSE retrieved
              /\ pos' = pos + 1
              /\ pc' = IF pos + 1 > Len(order) THEN "done" ELSE "download"
              /\ UNCHANGED exc
    /\ UNCHANGED <<args, n, fetched, fb, c, di, records, driver, sessions, reused,
                   cityear, order, citVars, elemVars>>

Next ==
    \/ FetchPage
    \/ Fallback
    \/ Captcha
    \/ ParseBlock
    \/ EndPage
    \/ BuildTable
    \/ DownloadRow

Spec == Init /\ [][Next]_vars

(***************************************************************************)
(* Properties.                                                             *)
(***************************************************************************)
CrawlOver == pc \in {"download", "done", "aborted"}
NumRecords == Len(rank) - 1

\* The link a block without a heading anchor gets on the page at offset k.
SentinelLink(k) == LookManually \o Url(k)
IsSentinelLink(l) == \E i \in 1..Len(fetched) : l = SentinelLink(fetched[i])

\* The offsets 0, 10, 20, ... below k, in rising order.
Offsets(k) ==
    IF k <= 0 THEN <<>>
    ELSE [i \in 1..((k + PageStep - 1) \div PageStep) |-> (i - 1) * PageStep]

\* C1: at any point of a crawl the ranks handed out are 1, 2, ..., N, in the
\* order the records were appended: rank starts as [0], each later entry is
\* its predecessor plus 1, and there is one rank per record.
C1_RanksCountFromOne ==
    /\ rank[1] = 0
    /\ \A i \in 2..Len(rank) : rank[i] = rank[i - 1] + 1
    /\ \A i \in 1..NumRecords : rank[i + 1] = i
    /\ NumRecords = Len(links)

\* C1 witness: a finished crawl of two pages that gave two or more records.
C1_Witness == pc = "done" /\ Len(fetched) = 2 /\ NumRecords >= 2 /\ rank[NumRecords + 1] = NumRecords

\* C2: every pass of the loop over the result blocks of a page lengthens each
\* of links, title, citations, year and author by exactly one entry, no other
\* step changes them, the five lists are as long as the number of ranks handed
\* out, and a page is left only when every one of its blocks was passed.
C2_OneRecordPerBlock ==
    [][ LET one == IF di' = di + 1 THEN 1 ELSE 0
        IN  /\ Len(links') = Len(links) + one
            /\ Len(title') = Len(title) + one
            /\ Len(citations') = Len(citations) + one
            /\ Len(year') = Len(year) + one
            /\ Len(author') = Len(author) + one
            /\ Len(rank') = Len(rank) + one
            /\ Len(links') = Len(rank') - 1
            /\ (pc = "parse" /\ pc' # "parse" => di = Len(c) + 1 /\ pc' = "loop")
            /\ (pc = "parse" /\ pc' = "parse" => di' = di + 1 /\ c' = c) ]_vars

\* C2 witness: a block whose five extractions all failed was passed after
\* another block, and left the sentinels in the five lists.
C2_Witness ==
    /\ pc = "parse" /\ di > 2
    /\ c[di - 1] = Block("none", None, "", FmtMany, BylinePlain)
    /\ links[Len(links)] = SentinelLink(n)
    /\ title[Len(title)] = "Could not catch title"
    /\ citations[Len(citations)] = 0
    /\ year[Len(year)] = 0
    /\ author[Len(author)] = AuthorNotFound
    /\ Len(author) = NumRecords

\* C3: a transport error of the direct fetch does not end the crawl.
C3_FetchErrorSkipsPage == ~(pc = "aborted" /\ exc = "ConnectionError")

\* C4: once the crawl is over, the direct fetches were made at exactly the
\* offsets 0, 10, 20, ... below resultCount, each once and in rising order;
\* before that, at a rising prefix of them, a fetch starting only with the
\* page before it parsed to its end.
C4_FetchesAllOffsetsInOrder ==
    /\ Len(fetched) <= Len(Offsets(nresults))
    /\ \A i \in 1..Len(fetched) : fetched[i] = Offsets(nresults)[i]
    /\ (CrawlOver => fetched = Offsets(nresults))

\* C5 as stated: a page whose fallback lookup failed on every attempt yields
\* no record, and the crawl goes on.
C5_ExhaustedLookupYieldsNothing ==
    fb = "lookup exhausted" => pc = "parse" /\ c = <<>>

\* C5 as amended: when the fallback lookup fails on every attempt, the crawl
\* is not aborted; the page is parsed from the body of the direct fetch, so
\* it yields the result blocks of that body (none when it has none), and the
\* crawl goes on to the next offset.
C5_ExhaustedLookupKeepsDirectBody ==
    [][ /\ (fb # "lookup exhausted" /\ fb' = "lookup exhausted" =>
               /\ pc' = "parse" /\ c' = c /\ di' = 1 /\ n' = n
               /\ UNCHANGED <<links, title, citations, year, author, rank>>)
        /\ (fb = "lookup exhausted" =>
               /\ exc' = ""
               /\ \/ pc' = "parse" /\ c' = c /\ n' = n /\ fb' = fb
                  \/ pc' = "loop" /\ n' = n + PageStep /\ di = Len(c) + 1) ]_vars

\* C5 witness: the lookup failed on every attempt and the blocks of the
\* direct body were all parsed.
C5_Witness ==
    /\ fb = "lookup exhausted" /\ pc = "parse"
    /\ Len(c) > 0 /\ di = Len(c) + 1 /\ NumRecords >= Len(c)

\* C6: a crawl starts the browser session at most once; while there is a
\* session it is the one `driver` holds, and a fallback that finds `driver`
\* set starts no other.
C6_SessionStartedAtMostOnce ==
    /\ sessions <= 1
    /\ (driver = "chrome") = (sessions = 1)
    /\ (reused => sessions = 1)

\* C6 witness: the fallback of a later page ran on the session an earlier
\* page had started.
C6_Witness == reused /\ sessions = 1 /\ n >= PageStep /\ fb = "ok"

\* C7: urlretrieve is never called for a record whose link is the
\* 'Look manually at: <url>' sentinel.
C7_NoRetrievalForSentinel ==
    \A r \in retrieved : r \in 1..Len(links) /\ ~IsSentinelLink(links[r])

\* C7 witness: the download loop ended having retrieved one record and passed
\* over another whose link is the sentinel.
C7_Witness ==
    /\ pc = "done" /\ enable_download /\ retrieved # {}
    /\ \E r \in 1..Len(links) : IsSentinelLink(links[r]) /\ r \notin retrieved

\* C8: cit/year is never computed with a denominator endYear + 1 - year that
\* is zero or negative, and the crawl goes on to the ranked table.
C8_DenominatorGuarded ==
    /\ exc # "IntCastingNaNError"
    /\ (pc \in {"download", "done"} => \A i \in 1..Len(year) : Denominator(i) > 0)

\* What the claims on get_citations are about: the last marker of a fragment,
\* the delimiter that follows it and the characters between the two.
Markers(s) == {i \in 0..(Len(s) - CitedByLen) : PySlice(s, i, i + CitedByLen) = CitedBy}
AfterLastMarker(s) == LastOf(Markers(s)) + CitedByLen
Delims(s) == {j \in AfterLastMarker(s)..(Len(s) - 1) : s[j + 1] = "<"}
Cited(s) == PySlice(s, AfterLastMarker(s), FirstOf(Delims(s)))
HasCited(s) == Markers(s) # {} /\ Delims(s) # {} /\ isdigit(Cited(s))

\* C9 as stated: get_citations returns the integer between the last marker
\* and the next '<', and fails when the fragment has no marker.
C9_LastMarkerOrNotFound ==
    citOut # NotCalled =>
        /\ (HasCited(content) => citOut = Return(DecimalValue(Cited(content))))
        /\ (Markers(content) = {} => citOut.exc # "")

\* C9 as amended: get_citations returns the integer between the last marker
\* and the next '<' when that integer has one to five digits, and returns 0
\* (it does not fail) when the fragment has no marker.
C9_LastMarkerOrZero ==
    citOut # NotCalled =>
        /\ (HasCited(content) /\ Len(Cited(content)) < CitedEndSpan =>
                citOut = Return(DecimalValue(Cited(content))))
        /\ (Markers(content) = {} => citOut = Return(0))

\* C9 witness: of two markers the last one decides.
C9_Witness ==
    /\ content = CitedBy \o <<"4", "<">> \o CitedBy \o <<"4", "2", "<">>
    /\ citOut = Return(42)

\* C10: get_element returns the element when one of the lookups it makes
\* finds it, and None only when every one of them failed.
C10_RetryReturnsElement ==
    elOut # NoLookup =>
        ((elOut.el = "element") = (\E i \in 0..attempts : find[i]))

====
